---- MODULE Spec2Model ----
(***************************************************************************)
(* The DFA engine of LexVii: the automaton held by DFAVisualizer            *)
(* (src/dfa_visualizer.py), its edit operations, the token-driven rebuild   *)
(* (update_dfa, called by LexViApp.on_editor_change in src/main.py), the    *)
(* Moore-style minimizer (minimize_dfa) and the step simulator              *)
(* (step_animation / reset_animation).                                      *)
(*                                                                          *)
(* Python objects are modelled by a heap: heap[i] is the DFAState object    *)
(* with identity i.  A string is modelled by the sequence of its atoms,     *)
(* the string being the atoms joined by ", " (so ", ".join is the           *)
(* concatenation of sequences).  A dict is the sequence of its entries in   *)
(* insertion order.                                                         *)
(***************************************************************************)
EXTENDS Integers, Sequences, FiniteSets, TLC

\* ------------------------------------------------------------------ bounds
MaxObjs == 3        \* DFAState objects referred to after an operation
MaxStates == 2      \* entries of self.states up to which "Add State" is used
MaxNameLen == 3     \* atoms in a key of the dict built by minimize_dfa
MaxEdges == 3       \* transitions of an automaton given to the Minimize button
MaxSeqLen == 3      \* symbols in an animation sequence given to the simulator
MaxTokens == 2      \* tokens of a text typed into the editor

\* ------------------------------------------------------------------ values
Nil == 0                              \* Python's None
ObjIds == 1..(2 * MaxObjs)            \* identities, with room for the objects
                                      \* an operation creates before it drops others
Symbols == {"a", "b"}                 \* strings used as input symbols
Labels == Symbols \cup {"START"}      \* strings used as transition labels
UserLabels == {"a"}                   \* labels typed into the label dialog
START == <<"START">>                  \* the literal "START"
UserNames == {<<"a">>, START}         \* names typed into the name dialog

\* class DFAState: name, is_accepting, transitions (position is display only)
DFAState(name, is_accepting) ==
    [name |-> name, acc |-> is_accepting, trans |-> [s \in Labels |-> Nil]]

\* an unused heap cell
Blank == DFAState(<< >>, FALSE)

\* class Token of src/lexer.py: type and value (line, column are display only)
Token(type, value) == [type |-> type, value |-> value]

\* the token lists the tokenizer hands to on_editor_change
TokenLists ==
    { << >>,
      << Token("a", "a"), Token("b", "b") >> }

\* the token lists of the texts typed into the editor: every type with every
\* value, the type "START" included
EditorTokenLists ==
    UNION {[1..m -> {Token(t, v) : t \in Labels, v \in Symbols}] : m \in 0..MaxTokens}

\* ------------------------------------------------------------------ dicts
\* dict: sequence of entries [k, v] in insertion order, keys pairwise distinct
Keys(d) == {d[i].k : i \in 1..Len(d)}
Values(d) == {d[i].v : i \in 1..Len(d)}
Has(d, k) == k \in Keys(d)
Get(d, k) == d[CHOOSE i \in 1..Len(d) : d[i].k = k].v
\* d[k] = v : an existing key keeps its place, a new key goes last
Put(d, k, v) ==
    IF Has(d, k)
    THEN [i \in 1..Len(d) |-> IF d[i].k = k THEN [k |-> k, v |-> v] ELSE d[i]]
    ELSE Append(d, [k |-> k, v |-> v])
\* del d[k]
Del(d, k) == SelectSeq(d, LAMBDA e : e.k # k)

\* ------------------------------------------------------------------ strings
\* rank of an atom in Python's string order ("START" < "a" < "b")
AtomRank(x) == CASE x = "START" -> 1 [] x = "a" -> 2 [] x = "b" -> 3

\* Python's  s < t  on the strings modelled by the atom sequences s and t
RECURSIVE NameLess(_, _)
NameLess(s, t) ==
    IF s = << >> THEN t # << >>
    ELSE IF t = << >> THEN FALSE
    ELSE IF Head(s) # Head(t) THEN AtomRank(Head(s)) < AtomRank(Head(t))
    ELSE NameLess(Tail(s), Tail(t))

\* sorted(names): insertion of n into the sorted sequence srt
RECURSIVE InsertSorted(_, _)
InsertSorted(n, srt) ==
    IF srt = << >> THEN << n >>
    ELSE IF NameLess(n, Head(srt)) THEN << n >> \o srt
    ELSE << Head(srt) >> \o InsertSorted(n, Tail(srt))

RECURSIVE SortedNames(_)
SortedNames(names) ==
    IF names = << >> THEN << >>
    ELSE InsertSorted(Head(names), SortedNames(Tail(names)))

\* ", ".join(names)
RECURSIVE Join(_)
Join(names) ==
    IF names = << >> THEN << >> ELSE Head(names) \o Join(Tail(names))

\* ------------------------------------------------------------------ state
VARIABLES
    heap,                \* the DFAState objects, by identity
    states,              \* self.states : dict name -> DFAState
    start_state,         \* self.start_state
    current_state,       \* self.current_state
    animation_step,      \* self.animation_step
    animation_sequence,  \* self.animation_sequence
    tokens,              \* self.tokens
    customization_mode,  \* self.customization_mode
    selected_state,      \* self.selected_state
    creating_transition, \* self.creating_transition
    transition_start     \* self.transition_start

vars == << heap, states, start_state, current_state, animation_step,
           animation_sequence, tokens, customization_mode, selected_state,
           creating_transition, transition_start >>

editVars == << customization_mode, selected_state, creating_transition,
               transition_start >>
simVars == << current_state, animation_step, animation_sequence, tokens >>

\* ------------------------------------------------------------------ heap
\* objects reachable from the set S through transitions
RECURSIVE Reach(_, _)
Reach(h, S) ==
    LET T == (S \cup {h[i].trans[s] : i \in S, s \in Labels}) \ {Nil}
    IN  IF T = S THEN S ELSE Reach(h, T)

\* the objects the visualizer still refers to
Roots(sts, st, cur, sel, ts) == (Values(sts) \cup {st, cur, sel, ts}) \ {Nil}

\* Garbage collection.  An object nothing refers to any more is dropped and the
\* remaining ones, live, are numbered 1..k in the order of their creation
\* (identities are only ever compared for equality, so the numbering is not
\* observable).  Rank is the new identity of i, Old the former identity of r.
Rank(live, i) == IF i = Nil THEN Nil ELSE Cardinality({j \in live : j <= i})
Old(live, r) == CHOOSE i \in live : Rank(live, i) = r

Collect(h, sts, st, cur, sel, ts, live) ==
    IF live = {i \in ObjIds : h[i] # Blank}
    THEN \* nothing to drop
         [heap |-> h, states |-> sts, start_state |-> st, current_state |-> cur,
          selected_state |-> sel, transition_start |-> ts,
          count |-> Cardinality(live)]
    ELSE [heap |-> [r \in ObjIds |->
                      IF r <= Cardinality(live)
                      THEN [h[Old(live, r)] EXCEPT
                               !.trans = [s \in Labels |-> Rank(live, @[s])]]
                      ELSE Blank],
          states |-> [e \in 1..Len(sts) |-> [k |-> sts[e].k, v |-> Rank(live, sts[e].v)]],
          start_state |-> Rank(live, st),
          current_state |-> Rank(live, cur),
          selected_state |-> Rank(live, sel),
          transition_start |-> Rank(live, ts),
          count |-> Cardinality(live)]

\* the objects in use are 1..NumObjs; the j-th new object is NumObjs + j
NumObjs == Cardinality({i \in ObjIds : heap[i] # Blank})
NewId(j) == NumObjs + j

\* ------------------------------------------------------------------ minimize_dfa
InSeq(x, q) == \E m \in 1..Len(q) : q[m] = x

\* the orders in which Python may iterate over a set of objects
Orders(S) ==
    {f \in [1..Cardinality(S) -> S] : \A m, n \in 1..Cardinality(S) : f[m] = f[n] => m = n}

\* alphabet: the transition keys of the states in self.states
Alphabet(h, sts) == {sym \in Labels : \E i \in Values(sts) : h[i].trans[sym] # Nil}

\* index (from 0) of the first partition that holds next_state, -1 if none does
PartitionIndex(partitions, next_state) ==
    LET hit == {i \in 1..Len(partitions) : InSeq(next_state, partitions[i])}
    IN  IF hit = {} THEN -1 ELSE (CHOOSE i \in hit : \A j \in hit : i <= j) - 1

\* the key with 0 in the place of -1
TransitionKeyZero(h, alphabet, partitions, state) ==
    [sym \in alphabet |->
        IF h[state].trans[sym] = Nil THEN 0
        ELSE LET hit == {i \in 1..Len(partitions) : InSeq(h[state].trans[sym], partitions[i])}
             IN  IF hit = {} THEN 0 ELSE (CHOOSE i \in hit : \A j \in hit : i <= j) - 1]

\* the key that only tells whether there is a transition
TransitionKeyDefined(h, alphabet, partitions, state) ==
    [sym \in alphabet |-> IF h[state].trans[sym] = Nil THEN -1 ELSE 0]

\* key = tuple(transition_key): one entry per symbol of the sorted alphabet
TransitionKey(h, alphabet, partitions, state) ==
    [sym \in alphabet |->
        IF h[state].trans[sym] = Nil THEN -1
        ELSE PartitionIndex(partitions, h[state].trans[sym])]

\* groups: the states of one partition grouped by key, groups in the order of
\* their first member, members in the order of the partition
RECURSIVE Groups(_, _, _, _, _)
Groups(h, alphabet, partitions, partition, groups) ==
    IF partition = << >> THEN groups
    ELSE LET state == Head(partition)
             key == TransitionKey(h, alphabet, partitions, state)
             hit == {j \in 1..Len(groups) : groups[j].key = key}
             added ==
                 IF hit = {}
                 THEN Append(groups, [key |-> key, members |-> << state >>])
                 ELSE [j \in 1..Len(groups) |->
                          IF j \in hit
                          THEN [groups[j] EXCEPT !.members = Append(@, state)]
                          ELSE groups[j]]
         IN  Groups(h, alphabet, partitions, Tail(partition), added)

\* the pass that leaves an empty partition out
RECURSIVE RefineRoundOmitting(_, _, _, _)
RefineRoundOmitting(h, alphabet, partitions, k) ==
    IF k > Len(partitions) THEN << >>
    ELSE LET g == Groups(h, alphabet, partitions, partitions[k], << >>)
         IN  [j \in 1..Len(g) |-> g[j].members]
                \o RefineRoundOmitting(h, alphabet, partitions, k + 1)

\* one pass of the for loop over partitions, from partition k on
RECURSIVE RefineRound(_, _, _, _)
RefineRound(h, alphabet, partitions, k) ==
    IF k > Len(partitions) THEN << >>
    ELSE LET g == Groups(h, alphabet, partitions, partitions[k], << >>)
             part == IF partitions[k] = << >> THEN << << >> >>
                     ELSE [j \in 1..Len(g) |-> g[j].members]
         IN  part \o RefineRound(h, alphabet, partitions, k + 1)

\* the while loop.  In the first round partitions holds two sets and
\* new_partitions holds lists, which Python finds equal only when all are empty.
RECURSIVE Refine(_, _, _, _)
Refine(h, alphabet, partitions, first) ==
    LET new_partitions == RefineRound(h, alphabet, partitions, 1)
        same == IF first
                THEN \A i \in 1..Len(partitions) : partitions[i] = << >>
                ELSE new_partitions = partitions
    IN  IF same THEN new_partitions
        ELSE Refine(h, alphabet, new_partitions, FALSE)

\* the rounds of a loop that compares the first round as it does the others
RECURSIVE RoundsComparingAlike(_, _, _, _, _)
RoundsComparingAlike(h, alphabet, partitions, first, fuel) ==
    LET new_partitions == RefineRound(h, alphabet, partitions, 1)
        round == [partitions |-> partitions, new_partitions |-> new_partitions,
                  exit |-> new_partitions = partitions]
    IN  IF new_partitions = partitions \/ fuel = 0 THEN << round >>
        ELSE << round >> \o RoundsComparingAlike(h, alphabet, new_partitions, FALSE, fuel - 1)

\* the rounds of the while loop, as long as fuel lasts: partitions at the
\* start of each round, new_partitions at its end, and whether the loop ends
RECURSIVE Rounds(_, _, _, _, _)
Rounds(h, alphabet, partitions, first, fuel) ==
    LET new_partitions == RefineRound(h, alphabet, partitions, 1)
        same == IF first
                THEN \A i \in 1..Len(partitions) : partitions[i] = << >>
                ELSE new_partitions = partitions
        round == [partitions |-> partitions, new_partitions |-> new_partitions,
                  exit |-> same]
    IN  IF same \/ fuel = 0 THEN << round >>
        ELSE << round >> \o Rounds(h, alphabet, new_partitions, FALSE, fuel - 1)

\* partitions holding every state in one block
OnePartition(h, ord) == << ord, << >> >>

\* partitions = [non_accepting_states, accepting_states]; ord is the iteration
\* order of the sets
InitialPartitions(h, ord) ==
    << SelectSeq(ord, LAMBDA i : ~h[i].acc), SelectSeq(ord, LAMBDA i : h[i].acc) >>

\* new_partitions at the end of the loop; ord is the iteration order of the sets
FinalPartitions(h, sts, ord) ==
    Refine(h, Alphabet(h, sts), InitialPartitions(h, ord), TRUE)

\* new_state_name of a partition
NewStateName(h, partition) ==
    Join(SortedNames([m \in 1..Len(partition) |-> h[partition[m]].name]))

\* minimized_states after the first for loop: blocks 1..n of the non-empty partitions
RECURSIVE MinimizedDict(_, _, _, _)
MinimizedDict(h, blocks, ids, n) ==
    IF n = 0 THEN << >>
    ELSE Put(MinimizedDict(h, blocks, ids, n - 1), NewStateName(h, blocks[n]), ids[n])

\* the non-empty partitions at the end of the loop, in the order of new_partitions
Blocks(h, sts, ord) == SelectSeq(FinalPartitions(h, sts, ord), LAMBDA b : b # << >>)

\* original_to_minimized.get(s): ids[j] is the identity of the object created
\* for blocks[j]
OriginalToMinimized(blocks, ids, s) ==
    IF \E j \in 1..Len(blocks) : InSeq(s, blocks[j])
    THEN ids[CHOOSE j \in 1..Len(blocks) : InSeq(s, blocks[j])]
    ELSE Nil

\* minimized_state of blocks[j], with the transitions of the first state of the block
MinimizedState(h, blocks, ids, j) ==
    [name |-> NewStateName(h, blocks[j]),
     acc |-> \E m \in 1..Len(blocks[j]) : h[blocks[j][m]].acc,
     trans |-> [sym \in Labels |->
                  OriginalToMinimized(blocks, ids, h[blocks[j][1]].trans[sym])]]

\* the heap with the minimized states
WithMinimizedStates(h, blocks, ids) ==
    [i \in ObjIds |->
        IF \E j \in 1..Len(blocks) : ids[j] = i
        THEN MinimizedState(h, blocks, ids, CHOOSE j \in 1..Len(blocks) : ids[j] = i)
        ELSE h[i]]

\* the end of minimize_dfa: new_start_state is renamed "START" and entered
\* under that key
RenamedStart(h, minimized_states, new_start_state) ==
    IF new_start_state # Nil /\ Has(minimized_states, START)
    THEN IF Get(minimized_states, START) # new_start_state
         THEN [minimized_states |->
                  Del(Put(minimized_states, START, new_start_state),
                      h[new_start_state].name),
               heap |-> [h EXCEPT ![new_start_state].name = START]]
         ELSE [minimized_states |-> minimized_states, heap |-> h]
    ELSE IF new_start_state # Nil
    THEN [minimized_states |-> Put(minimized_states, START, new_start_state),
          heap |-> [h EXCEPT ![new_start_state].name = START]]
    ELSE [minimized_states |-> minimized_states, heap |-> h]

\* minimize_dfa after the loop, from the non-empty partitions
MinimizeFrom(h, st, ids, blocks) ==
    RenamedStart(WithMinimizedStates(h, blocks, ids),
                 MinimizedDict(h, blocks, ids, Len(blocks)),
                 OriginalToMinimized(blocks, ids, st))

\* minimize_dfa: the returned dict and the heap holding the new objects; ord is
\* the iteration order of the sets of states
MinimizeDfa(h, sts, st, ids, ord) == MinimizeFrom(h, st, ids, Blocks(h, sts, ord))

\* start_state as _on_minimize_button_click finds it in the returned dict
FoundStart(h, minimized_states) ==
    LET named == {i \in 1..Len(minimized_states) : h[minimized_states[i].v].name = START}
    IN  IF named # {}
        THEN minimized_states[CHOOSE i \in named : \A j \in named : i <= j].v
        ELSE IF minimized_states # << >> THEN minimized_states[1].v
        ELSE Nil

\* ------------------------------------------------------------------ operations
\* the references an operation leaves behind, garbage collected (live and c
\* are bound by \E so that they are computed once)
Install(h, sts, st, cur, sel, ts) ==
    \E live \in {Reach(h, Roots(sts, st, cur, sel, ts))} :
      \E c \in {Collect(h, sts, st, cur, sel, ts, live)} :
        /\ c.count <= MaxObjs
        /\ heap' = c.heap
        /\ states' = c.states
        /\ start_state' = c.start_state
        /\ current_state' = c.current_state
        /\ selected_state' = c.selected_state
        /\ transition_start' = c.transition_start

refVars == << heap, states, start_state, current_state, selected_state,
              transition_start >>

\* DFAVisualizer.__init__
Init ==
    /\ heap = [i \in ObjIds |-> IF i = 1 THEN DFAState(START, FALSE) ELSE Blank]
    /\ states = << [k |-> START, v |-> 1] >>
    /\ start_state = 1
    /\ current_state = Nil
    /\ animation_step = 0
    /\ animation_sequence = << >>
    /\ tokens = << >>
    /\ customization_mode = FALSE
    /\ selected_state = Nil
    /\ creating_transition = FALSE
    /\ transition_start = Nil

\* _toggle_customization_mode that only stores the mode
ToggleCustomizationModeOnly ==
    /\ customization_mode' = ~customization_mode
    /\ UNCHANGED << creating_transition, refVars, animation_step, animation_sequence,
                    tokens >>

\* _toggle_customization_mode (the check button flips custom_mode_var first)
ToggleCustomizationMode ==
    /\ customization_mode' = ~customization_mode
    /\ IF ~customization_mode'
       THEN /\ creating_transition' = FALSE
            /\ Install(heap, states, start_state, current_state, Nil, Nil)
       ELSE UNCHANGED << creating_transition, refVars >>
    /\ UNCHANGED << animation_step, animation_sequence, tokens >>

\* _get_state_name: the name typed (<< >> when the dialog is cancelled or empty)
GetStateName(name) == IF name # << >> /\ ~Has(states, name) THEN name ELSE << >>

\* _add_state
AddState(name) ==
    /\ IF GetStateName(name) # << >>
       THEN /\ Len(states) < MaxStates
            /\ NumObjs < MaxObjs
            /\ states' = Put(states, name, NewId(1))
            /\ heap' = [heap EXCEPT ![NewId(1)] = DFAState(name, FALSE)]
       ELSE UNCHANGED << states, heap >>
    /\ UNCHANGED << start_state, simVars, editVars >>

\* _delete_state without its loop: the transitions that lead to target stay
KeepingTransitionsTo(h, sts, target) == h

\* the heap after the loop of _delete_state: the states in self.states keep
\* the transitions that do not lead to target
WithoutTransitionsTo(h, sts, target) ==
    [i \in ObjIds |->
        IF i \in Values(sts)
        THEN [h[i] EXCEPT !.trans = [s \in Labels |-> IF @[s] = target THEN Nil ELSE @[s]]]
        ELSE h[i]]

\* self.states after  del self.states[self.selected_state.name]  (a KeyError,
\* when the name is no key, ends the handler and leaves the dict as it is)
StatesAfterDelete(h, sts, sel) == IF Has(sts, h[sel].name) THEN Del(sts, h[sel].name) ELSE sts

\* _delete_state, when a state other than the start state is selected.
\* After a KeyError the selection is not cleared.
DeleteState ==
    /\ selected_state # Nil
    /\ selected_state # start_state
    /\ Install(WithoutTransitionsTo(heap, states, selected_state),
               StatesAfterDelete(heap, states, selected_state),
               start_state, current_state,
               IF Has(states, heap[selected_state].name) THEN Nil ELSE selected_state,
               transition_start)
    /\ UNCHANGED << animation_step, animation_sequence, tokens,
                    customization_mode, creating_transition >>

\* _toggle_accepting, when a state is selected
ToggleAccepting ==
    /\ selected_state # Nil
    /\ heap' = [heap EXCEPT ![selected_state].acc = ~@]
    /\ UNCHANGED << states, start_state, simVars, editVars >>

\* _start_transition, when a state is selected
StartTransition ==
    /\ selected_state # Nil
    /\ creating_transition' = TRUE
    /\ transition_start' = selected_state
    /\ UNCHANGED << heap, states, start_state, simVars, customization_mode,
                    selected_state >>

\* _complete_transition that keeps the target of a label that has one
CompleteTransitionKeeping(h, creating, ts, end_state, label) ==
    IF creating /\ ts # Nil /\ end_state # Nil /\ label # "" /\ h[ts].trans[label] = Nil
    THEN [h EXCEPT ![ts].trans[label] = end_state]
    ELSE h

\* the heap after _complete_transition(end_state) with the label typed
\* ("" when the dialog is cancelled or empty)
CompleteTransition(h, creating, ts, end_state, label) ==
    IF creating /\ ts # Nil /\ end_state # Nil /\ label # ""
    THEN [h EXCEPT ![ts].trans[label] = end_state]
    ELSE h

\* the tags of the state items drawn on the canvas
StateTags == {heap[i].name : i \in Values(states)}

\* _on_click in customization mode on an item tagged tag; the label dialog
\* is shown only when a transition is being created
OnClick(tag) ==
    /\ customization_mode
    /\ Has(states, tag)
    /\ IF creating_transition
       THEN \E label \in UserLabels \cup {""} :
               /\ creating_transition' = FALSE
               /\ Install(CompleteTransition(heap, creating_transition, transition_start,
                                             Get(states, tag), label),
                          states, start_state, current_state, selected_state, Nil)
       ELSE /\ Install(heap, states, start_state, current_state, Get(states, tag),
                       transition_start)
            /\ UNCHANGED creating_transition
    /\ UNCHANGED << animation_step, animation_sequence, tokens, customization_mode >>

\* _delete_transition, when a state is selected
DeleteTransition(label) ==
    /\ selected_state # Nil
    /\ IF label # "" /\ heap[selected_state].trans[label] # Nil
       THEN Install([heap EXCEPT ![selected_state].trans[label] = Nil], states,
                    start_state, current_state, selected_state, transition_start)
       ELSE UNCHANGED refVars
    /\ UNCHANGED << animation_step, animation_sequence, tokens,
                    customization_mode, creating_transition >>

\* token_types = {token.type for token in tokens}
TokenTypes(toks) == {toks[i].type : i \in 1..Len(toks)}

\* update_dfa: self.states after the loop over token_types in the order types;
\* ids[1] is the new start state, ids[1 + i] the state of types[i]
RECURSIVE UpdatedStates(_, _, _)
UpdatedStates(types, ids, n) ==
    IF n = 0 THEN << [k |-> START, v |-> ids[1]] >>
    ELSE Put(UpdatedStates(types, ids, n - 1), << types[n] >>, ids[1 + n])

\* update_dfa: the heap after the loop over token_types
UpdatedHeap(h, types, ids) ==
    [i \in ObjIds |->
        IF i = ids[1]
        THEN [DFAState(START, FALSE) EXCEPT
                !.trans = [s \in Labels |->
                             IF \E n \in 1..Len(types) : types[n] = s
                             THEN ids[1 + CHOOSE n \in 1..Len(types) : types[n] = s]
                             ELSE Nil]]
        ELSE IF \E n \in 1..Len(types) : ids[1 + n] = i
        THEN DFAState(<< types[CHOOSE n \in 1..Len(types) : ids[1 + n] = i] >>, TRUE)
        ELSE h[i]]

\* LexViApp.on_editor_change with the tokens of the text: update_dfa (which
\* ends with reset_animation), then, unless the text is empty, the new
\* animation_sequence.  types is the iteration order of the set token_types.
OnEditorChange(toks, types) ==
    LET ids == [j \in 1..(1 + Len(types)) |-> NewId(j)]
    IN  /\ tokens' = toks
        /\ animation_step' = 0
        /\ animation_sequence' =
              IF toks = << >> THEN animation_sequence
              ELSE [i \in 1..Len(toks) |-> toks[i].value]
        /\ Install(UpdatedHeap(heap, types, ids), UpdatedStates(types, ids, Len(types)),
                   ids[1], ids[1], selected_state, transition_start)
        /\ UNCHANGED << customization_mode, creating_transition >>

\* step_animation that leaves current_state where it is
StepTargetStaying(h, st, cur, token_value) == cur

\* step_animation: the state the step leaves current_state in
StepTarget(h, st, cur, token_value) ==
    LET from == IF cur = Nil THEN st ELSE cur
    IN  IF from # Nil /\ token_value \in Labels THEN h[from].trans[token_value] ELSE Nil

\* step_animation: what the call prints once animation_step was incremented
StepReport(h, cur, step, sequence) ==
    IF step >= Len(sequence) \/ cur = Nil
    THEN IF cur # Nil /\ h[cur].acc THEN "accepted" ELSE "rejected"
    ELSE "none"

\* step_animation: what the call prints about the input ("none": nothing)
StepPrints ==
    IF animation_sequence = << >> \/ tokens = << >> THEN "none"
    ELSE IF animation_step >= Len(animation_sequence) THEN "none"
    ELSE StepReport(heap,
                    StepTarget(heap, start_state, current_state,
                               animation_sequence[animation_step + 1]),
                    animation_step + 1, animation_sequence)

\* step_animation that removes the transition it takes
StepAnimationConsuming ==
    /\ animation_sequence # << >>
    /\ tokens # << >>
    /\ animation_step < Len(animation_sequence)
    /\ current_state # Nil
    /\ animation_step' = animation_step + 1
    /\ Install([heap EXCEPT ![current_state].trans[animation_sequence[animation_step + 1]] = Nil],
               states, start_state,
               StepTarget(heap, start_state, current_state,
                          animation_sequence[animation_step + 1]),
               selected_state, transition_start)
    /\ UNCHANGED << animation_sequence, tokens, customization_mode,
                    creating_transition >>

\* step_animation
StepAnimation ==
    IF animation_sequence = << >> \/ tokens = << >>
    THEN UNCHANGED vars
    ELSE IF animation_step >= Len(animation_sequence)
    THEN \* reset_animation()
         /\ animation_step' = 0
         /\ Install(heap, states, start_state, start_state, selected_state,
                    transition_start)
         /\ UNCHANGED << animation_sequence, tokens, customization_mode,
                         creating_transition >>
    ELSE /\ animation_step' = animation_step + 1
         /\ Install(heap, states, start_state,
                    StepTarget(heap, start_state, current_state,
                               animation_sequence[animation_step + 1]),
                    selected_state, transition_start)
         /\ UNCHANGED << animation_sequence, tokens, customization_mode,
                         creating_transition >>

\* reset_animation that leaves current_state as it is
ResetAnimationCursorOnly ==
    /\ animation_step' = 0
    /\ UNCHANGED << refVars, animation_sequence, tokens, customization_mode,
                    creating_transition >>

\* reset_animation
ResetAnimation ==
    /\ animation_step' = 0
    /\ Install(heap, states, start_state, start_state, selected_state, transition_start)
    /\ UNCHANGED << animation_sequence, tokens, customization_mode,
                    creating_transition >>

\* _on_minimize_button_click before garbage collection: the new self.states,
\* self.start_state and heap, from what minimize_dfa returned
Installing(result) ==
    [heap |-> result.heap,
     states |-> result.minimized_states,
     start_state |-> FoundStart(result.heap, result.minimized_states)]

\* the automaton _on_minimize_button_click replaces the one held by; ord is the
\* order in which the sets of states built by minimize_dfa are iterated
Minimized(h, sts, st, ids, ord) == Installing(MinimizeDfa(h, sts, st, ids, ord))

\* minimize_dfa taking the objects of the input for its minimized states
ReusedIds == [j \in 1..Cardinality(Values(states)) |-> j]

\* the identities of the objects minimize_dfa creates
NewIds == [j \in 1..Cardinality(Values(states)) |-> NewId(j)]

\* _on_minimize_button_click
OnMinimizeButtonClick(ord) ==
    \E m \in {Minimized(heap, states, start_state, NewIds, ord)} :
        /\ \A e \in 1..Len(m.states) : Len(m.states[e].k) <= MaxNameLen
        /\ Install(m.heap, m.states, m.start_state, current_state, selected_state,
                   transition_start)
        /\ UNCHANGED << animation_step, animation_sequence, tokens,
                        customization_mode, creating_transition >>

\* ------------------------------------------------------------------ specifications
\* An editing session: the customization panel, clicks on the canvas, the
\* rebuild after a change of the editor text and the Minimize button.
Next ==
    \/ ToggleCustomizationMode
    \/ \E name \in UserNames \cup {<< >>} : AddState(name)
    \/ DeleteState
    \/ ToggleAccepting
    \/ StartTransition
    \/ \E tag \in StateTags : OnClick(tag)
    \/ \E label \in UserLabels \cup {""} : DeleteTransition(label)
    \/ \E toks \in TokenLists : \E types \in Orders(TokenTypes(toks)) :
          OnEditorChange(toks, types)
    \/ \E ord \in Orders(Values(states)) : OnMinimizeButtonClick(ord)

Spec == Init /\ [][Next]_vars

\* The visualizer holding an automaton with the states names[1..n], built
\* with the edit operations: names[1] is the start state, acc the accepting
\* flags, tr the transitions
Holding(names, n, acc, tr) ==
    /\ heap = [i \in ObjIds |->
                 IF i <= n
                 THEN [name |-> names[i], acc |-> acc[i],
                       trans |-> [s \in Labels |-> IF s \in Symbols THEN tr[i][s] ELSE Nil]]
                 ELSE Blank]
    /\ states = [i \in 1..n |-> [k |-> names[i], v |-> i]]
    /\ start_state = 1
    /\ customization_mode = FALSE
    /\ selected_state = Nil
    /\ creating_transition = FALSE
    /\ transition_start = Nil

\* the automata given to the Minimize button: up to three states
MinNames == << START, <<"a">>, <<"b">> >>

InitMin ==
    \E n \in 1..Len(MinNames) :
      \E acc \in [1..n -> BOOLEAN], tr \in [1..n -> [Symbols -> 0..n]] :
        /\ Cardinality({<< i, sym >> \in (1..n) \X Symbols : tr[i][sym] # Nil}) <= MaxEdges
        /\ Holding(MinNames, n, acc, tr)
        /\ current_state = Nil
        /\ animation_step = 0
        /\ animation_sequence = << >>
        /\ tokens = << >>

NextMin == \E ord \in Orders(Values(states)) : OnMinimizeButtonClick(ord)

\* The Minimize button pressed, again and again, on an automaton
SpecMin == InitMin /\ [][NextMin]_vars

\* the automata and the inputs given to the simulator
SimNames == << START, <<"a">> >>
SimSequences == UNION {[1..m -> Symbols] : m \in 0..MaxSeqLen}

InitSim ==
    \E n \in 1..Len(SimNames) :
      \E acc \in [1..n -> BOOLEAN], tr \in [1..n -> [Symbols -> 0..n]] :
        \E sequence \in SimSequences :
          /\ Holding(SimNames, n, acc, tr)
          /\ current_state = start_state
          /\ animation_step = 0
          /\ animation_sequence = sequence
          /\ tokens = [i \in 1..Len(sequence) |-> Token("a", sequence[i])]

NextSim ==
    \/ StepAnimation
    \/ ResetAnimation
    \/ \E toks \in TokenLists : \E types \in Orders(TokenTypes(toks)) :
          OnEditorChange(toks, types)

\* The Step and Reset buttons on an automaton and an input, from the state
\* reset_animation leaves, and the rebuild after a change of the editor text
SpecSim == InitSim /\ [][NextSim]_vars

\* ------------------------------------------------------------------ automata
\* every transition target of a state in sts is in sts, and so is the start state
WellFormed(h, sts, st) ==
    /\ st \in Values(sts)
    /\ \A i \in Values(sts) : \A sym \in Labels : h[i].trans[sym] \in Values(sts) \cup {Nil}

\* a run: the state after one more symbol (Nil once a transition was missing)
StepOn(h, q, sym) == IF q = Nil THEN Nil ELSE h[q].trans[sym]

\* a run ending in q accepts
Accepting(h, q) == q # Nil /\ h[q].acc

\* the pairs of states that the runs of one symbol sequence end in, from P
RECURSIVE PairsFrom(_, _, _)
PairsFrom(h1, h2, P) ==
    LET Q == P \cup {<< StepOn(h1, p[1], sym), StepOn(h2, p[2], sym) >> :
                        p \in P, sym \in Labels}
    IN  IF Q = P THEN P ELSE PairsFrom(h1, h2, Q)

\* every symbol sequence is accepted from s1 in h1 iff it is accepted from s2
\* in h2 (each sequence ends in one of the pairs; a pair is reached by a sequence)
SameLanguage(h1, s1, h2, s2) ==
    \A p \in PairsFrom(h1, h2, {<< s1, s2 >>}) : Accepting(h1, p[1]) = Accepting(h2, p[2])

NextRun ==
    \/ \E toks \in EditorTokenLists : \E types \in Orders(TokenTypes(toks)) :
          OnEditorChange(toks, types)
    \/ StepAnimation
    \/ ResetAnimation

\* Texts typed into the editor and the Step and Reset buttons, from the
\* visualizer as constructed
SpecRun == Init /\ [][NextRun]_vars

\* ------------------------------------------------------------------ claims
\* C1: for every well-formed automaton held by the visualizer, the automaton
\* the Minimize button installs accepts a symbol sequence from its start state
\* iff the automaton held before accepts it, whatever the iteration order
MinimizationCorrect ==
    \A ord \in Orders(Values(states)) :
        WellFormed(heap, states, start_state) =>
            LET m == Minimized(heap, states, start_state, NewIds, ord)
            IN  SameLanguage(heap, start_state, m.heap, m.start_state)

\* the states from which some accepting state can be reached
Live(h, q) == \E p \in Reach(h, {q}) : h[p].acc

\* the number of states of the smallest partial deterministic automaton that
\* accepts what is accepted from st: one state for each class of states that
\* are reachable from st, can reach an accepting state and accept the same
\* sequences (and the start state alone when nothing is accepted)
FewestStates(h, st) ==
    LET useful == {q \in Reach(h, {st}) : Live(h, q)}
        classes == {{p \in useful : SameLanguage(h, q, h, p)} : q \in useful}
    IN  IF useful = {} THEN 1 ELSE Cardinality(classes)

\* C2: for every well-formed automaton, the automaton returned by minimize_dfa
\* has no more states than the smallest partial deterministic automaton
\* accepting the same symbol sequences
MinimizationMinimal ==
    \A ord \in Orders(Values(states)) :
        WellFormed(heap, states, start_state) =>
            LET m == Minimized(heap, states, start_state, NewIds, ord)
            IN  Cardinality(Values(m.states)) <= FewestStates(heap, start_state)

\* C3: every transition target of every state in self.states is itself a
\* value of self.states
NoDanglingReferences ==
    \A i \in Values(states) : \A sym \in Labels :
        heap[i].trans[sym] \in Values(states) \cup {Nil}

\* C4: self.start_state is a value of self.states: no operation, _delete_state
\* included, removes the entry that holds the start state
StartStatePresent == start_state \in Values(states)

\* the state a run of the symbol sequence seq from q ends in
RECURSIVE Run(_, _, _)
Run(h, q, seq) ==
    IF seq = << >> THEN q ELSE Run(h, StepOn(h, q, Head(seq)), Tail(seq))

\* step_animation found no transition in this run
Rejected == animation_step > 0 /\ current_state = Nil

\* C5: once step_animation found no transition, a later call of step_animation
\* consumes no further symbol (the cursor does not advance, so no state is
\* moved to) and reports no acceptance
RejectionPermanent ==
    [][(Rejected /\ StepAnimation) =>
          /\ animation_step' # animation_step + 1
          /\ StepPrints # "accepted"]_vars

\* C6: a call of step_animation reports "accepted" iff it consumes the last
\* symbol of a sequence of which every symbol has a defined transition, in
\* order from the start state, and which ends in an accepting state
AcceptanceRule ==
    tokens # << >> =>
        ((StepPrints = "accepted") <=>
            /\ animation_step + 1 = Len(animation_sequence)
            /\ Accepting(heap, Run(heap, start_state, animation_sequence)))

\* the simulator has reported a verdict: all symbols consumed, or a transition missing
Halted == animation_step > 0 /\ (animation_step >= Len(animation_sequence) \/ current_state = Nil)

\* C7: once a verdict is reported, a further call of step_animation leaves
\* current_state and animation_step as they are
HaltedTerminal ==
    [][(Halted /\ StepAnimation) => UNCHANGED << current_state, animation_step >>]_vars

\* the automaton _on_minimize_button_click installs, as the next call of
\* minimize_dfa finds it
Installed(m) ==
    Collect(m.heap, m.states, m.start_state, Nil, Nil, Nil,
            Reach(m.heap, Roots(m.states, m.start_state, Nil, Nil, Nil)))

\* C8: for every well-formed automaton, minimizing the installed result of a
\* minimization returns as many entries as the first minimization returned
MinimizationIdempotent ==
    \A ord1 \in Orders(Values(states)) :
        WellFormed(heap, states, start_state) =>
            LET c == Installed(Minimized(heap, states, start_state, NewIds, ord1))
                ids == [j \in 1..Cardinality(Values(c.states)) |-> c.count + j]
            IN  \A ord2 \in Orders(Values(c.states)) :
                    Len(Minimized(c.heap, c.states, c.start_state, ids, ord2).states)
                        = Len(c.states)

\* C9: self.current_state is None or a value of self.states
CursorInStates == current_state = Nil \/ current_state \in Values(states)

\* _delete_state removes an entry: a state other than the start state is
\* selected and its name is a key of self.states
DeleteSucceeds ==
    /\ selected_state # Nil
    /\ selected_state # start_state
    /\ Has(states, heap[selected_state].name)

\* C10: after a successful _delete_state of s, s is not in self.states, no
\* remaining state has a transition to s, and the other transitions and the
\* accepting flags of the remaining states are as before
DeleteStatePostcondition ==
    DeleteSucceeds =>
        LET s == selected_state
            h == WithoutTransitionsTo(heap, states, s)
            remaining == StatesAfterDelete(heap, states, s)
        IN  /\ s \notin Values(remaining)
            /\ ~Has(remaining, heap[s].name)
            /\ \A i \in Values(remaining) :
                  /\ h[i].acc = heap[i].acc
                  /\ h[i].name = heap[i].name
                  /\ \A sym \in Labels :
                        /\ h[i].trans[sym] # s
                        /\ heap[i].trans[sym] # s => h[i].trans[sym] = heap[i].trans[sym]

\* a successful _delete_state that removes a transition of a remaining state
\* and keeps another one
DeleteRemovesTransition ==
    /\ DeleteSucceeds
    /\ selected_state \in Values(states)
    /\ \E i \in Values(StatesAfterDelete(heap, states, selected_state)) :
          \E sym, other \in Symbols :
              /\ heap[i].trans[sym] = selected_state
              /\ heap[i].trans[other] \notin {Nil, selected_state}

\* C11: each (state, symbol) pair has one target at most (trans is a function
\* of the symbol); completing a transition from transition_start on a label to
\* a clicked state makes that state the target, whatever the target was, and
\* leaves every other transition, every accepting flag and every name as it was
TransitionOverwrites ==
    (creating_transition /\ transition_start # Nil) =>
        \A tag \in StateTags : \A label \in UserLabels :
            Has(states, tag) =>
                LET to == Get(states, tag)
                    h == CompleteTransition(heap, creating_transition,
                                            transition_start, to, label)
                IN  /\ h[transition_start].trans[label] = to
                    /\ \A i \in ObjIds :
                          /\ h[i].acc = heap[i].acc
                          /\ h[i].name = heap[i].name
                          /\ \A sym \in Labels :
                                (i # transition_start \/ sym # label) =>
                                    h[i].trans[sym] = heap[i].trans[sym]

\* a transition is being completed from a state that has a transition on the
\* label already, to another state than its target
OverwriteReady ==
    /\ creating_transition
    /\ transition_start # Nil
    /\ \E tag \in StateTags : \E label \in UserLabels :
          /\ Has(states, tag)
          /\ heap[transition_start].trans[label] \notin {Nil, Get(states, tag)}

\* the objects in use
Objects == {i \in ObjIds : heap[i] # Blank}

\* C12: minimize_dfa leaves every object in use (name, accepting flag,
\* transitions) as it was, and the states it returns are new objects
MinimizerKeepsInput ==
    \A ord \in Orders(Values(states)) :
        LET result == MinimizeDfa(heap, states, start_state, NewIds, ord)
        IN  /\ \A i \in Objects : result.heap[i] = heap[i]
            /\ Values(result.minimized_states) \cap Objects = {}

\* an automaton of which minimize_dfa merges two states
MinimizerMerges ==
    \E ord \in Orders(Values(states)) :
        Len(Blocks(heap, states, ord)) < Cardinality(Values(states))

\* C13: step_animation and reset_animation leave the states, their names,
\* transitions and accepting flags, and the start state as they are
SimulatorKeepsAutomaton ==
    [][(StepAnimation \/ ResetAnimation) => UNCHANGED << heap, states, start_state >>]_vars

\* the simulator has moved from the start state to another state
SteppedAway == animation_step > 0 /\ current_state \notin {Nil, start_state}

\* the minimized state _on_minimize_button_click is to take for its start
\* state: the one created for the block that holds the start state
StartBlockState(h, sts, st, ids, ord) == OriginalToMinimized(Blocks(h, sts, ord), ids, st)

\* C14: the start state _on_minimize_button_click installs is the minimized
\* state created for the block that holds the former start state
MinimizedStartState ==
    \A ord \in Orders(Values(states)) :
        LET m == Minimized(heap, states, start_state, NewIds, ord)
        IN  /\ m.start_state # Nil
            /\ m.start_state = StartBlockState(heap, states, start_state, NewIds, ord)

\* C15: with an empty sequence, a call of step_animation in the state reset
\* leaves reports acceptance if the start state is accepting, rejection if not
EmptySequenceVerdict ==
    (animation_sequence = << >> /\ animation_step = 0 /\ current_state = start_state) =>
        StepPrints = IF Accepting(heap, start_state) THEN "accepted" ELSE "rejected"

\* C16: each key of self.states maps to a state of that name, and no state is
\* held under two keys
StatesKeyedByName ==
    /\ \A e \in 1..Len(states) : heap[states[e].v].name = states[e].k
    /\ \A e, f \in 1..Len(states) : states[e].v = states[f].v => e = f

\* C17: for a name that self.states already holds, _get_state_name hands
\* _add_state a result that differs from the result of a cancelled dialog, so
\* that the failure can be reported
DuplicateNameReported ==
    \A name \in UserNames : Has(states, name) => GetStateName(name) # GetStateName(<< >>)

\* C18: selected_state and transition_start are each None or a value of
\* self.states
SelectionInStates ==
    /\ selected_state \in Values(states) \cup {Nil}
    /\ transition_start \in Values(states) \cup {Nil}

\* the states p and q have the same accepting flag and the same transitions
Twins(p, q) == p # q /\ heap[p].acc = heap[q].acc /\ heap[p].trans = heap[q].trans

\* C19: two states of a well-formed automaton with the same accepting flag and
\* the same transitions are mapped to one minimized state, and if no other two
\* states are equivalent the dictionary minimize_dfa returns has one entry
\* fewer than self.states
TwinsMerged ==
    \A ord \in Orders(Values(states)) : \A p, q \in Values(states) :
        (WellFormed(heap, states, start_state) /\ Twins(p, q)) =>
            /\ OriginalToMinimized(Blocks(heap, states, ord), NewIds, p)
                 = OriginalToMinimized(Blocks(heap, states, ord), NewIds, q)
            /\ (\A r, t \in Values(states) :
                    (r # t /\ {r, t} # {p, q}) => ~SameLanguage(heap, r, heap, t))
                 => Len(MinimizeDfa(heap, states, start_state, NewIds, ord).minimized_states)
                      = Len(states) - 1

\* C20: reset_animation and update_dfa leave animation_step at 0 and
\* current_state at the start state of the automaton then held
ResetToStart ==
    [][(ResetAnimation \/ \E toks \in TokenLists : \E types \in Orders(TokenTypes(toks)) :
                             OnEditorChange(toks, types))
         => (animation_step' = 0 /\ current_state' = start_state')]_vars

\* the simulator has been reset on an automaton that update_dfa built
RebuiltAndReset ==
    /\ Has(states, <<"b">>)
    /\ animation_step = 0
    /\ current_state = start_state
    /\ current_state # Nil

\* update_dfa(toks) with token_types iterated in the order types: the
\* automaton it installs
UpdateDfa(toks, types) ==
    LET ids == [j \in 1..(1 + Len(types)) |-> NewId(j)]
    IN  [heap |-> UpdatedHeap(heap, types, ids),
         states |-> UpdatedStates(types, ids, Len(types)),
         start_state |-> ids[1]]

\* C21: for every list of tokens, update_dfa installs a non-accepting start
\* state that is a value of states, one accepting state per token type, and
\* no transitions but one from the start state on each type to its state
TwoLevelAutomaton ==
    \A toks \in EditorTokenLists : \A types \in Orders(TokenTypes(toks)) :
        LET u == UpdateDfa(toks, types)
            typed == Values(u.states) \ {u.start_state}
        IN  /\ u.start_state \in Values(u.states)
            /\ ~u.heap[u.start_state].acc
            /\ Cardinality(typed) = Cardinality(TokenTypes(toks))
            /\ \A t \in TokenTypes(toks) :
                  /\ Has(u.states, << t >>)
                  /\ Get(u.states, << t >>) \in typed
                  /\ u.heap[Get(u.states, << t >>)].acc
                  /\ u.heap[u.start_state].trans[t] = Get(u.states, << t >>)
            /\ \A l \in Labels \ TokenTypes(toks) : u.heap[u.start_state].trans[l] = Nil
            /\ \A i \in typed : \A l \in Labels : u.heap[i].trans[l] = Nil

\* on_editor_change has installed the automaton and the sequence of a
\* non-empty text, and no step was taken
Installed0 ==
    /\ tokens # << >>
    /\ animation_sequence = [i \in 1..Len(tokens) |-> tokens[i].value]
    /\ animation_step = 0
    /\ current_state = start_state
    /\ start_state \in Values(states)
    /\ \A t \in TokenTypes(tokens) : Has(states, << t >>)

\* C28: after on_editor_change on a non-empty text, the first step_animation
\* moves the simulator to the state created for the type of the first token
FirstStepReachesType ==
    Installed0 =>
        StepTarget(heap, start_state, current_state, animation_sequence[1])
            = Get(states, << tokens[1].type >>)

\* C29: selected_state is set only in customization mode; creating_transition
\* holds exactly when transition_start is set; switching the mode off clears
\* selected_state, creating_transition and transition_start; a click that
\* completes a transition clears creating_transition and transition_start,
\* with a label or without
EditingSession ==
    [][/\ selected_state' # Nil => customization_mode'
       /\ creating_transition' <=> transition_start' # Nil
       /\ (ToggleCustomizationMode /\ ~customization_mode') =>
              (selected_state' = Nil /\ ~creating_transition' /\ transition_start' = Nil)
       /\ (creating_transition /\ \E tag \in StateTags : OnClick(tag)) =>
              (~creating_transition' /\ transition_start' = Nil)]_vars

\* a transition is being created from a selected state
CreatingTransition ==
    /\ customization_mode
    /\ creating_transition
    /\ transition_start # Nil
    /\ selected_state # Nil

\* the state step_animation starts from
StepFrom == IF current_state = Nil THEN start_state ELSE current_state

\* step_animation is called and finds a transition on the symbol at the cursor
StepFindsTransition ==
    /\ animation_sequence # << >>
    /\ tokens # << >>
    /\ animation_step < Len(animation_sequence)
    /\ StepFrom # Nil
    /\ animation_sequence[animation_step + 1] \in Labels
    /\ heap[StepFrom].trans[animation_sequence[animation_step + 1]] # Nil

\* C30: animation_step stays between 0 and the length of the sequence; a
\* step_animation that finds a transition moves current_state to its target
\* and adds one to animation_step; with an empty sequence or an empty token
\* list it changes neither
CursorBound ==
    [][/\ animation_step \in 0..Len(animation_sequence)
       /\ animation_step' \in 0..Len(animation_sequence')
       /\ (StepAnimation /\ StepFindsTransition) =>
              /\ current_state' = heap[StepFrom].trans[animation_sequence[animation_step + 1]]
              /\ animation_step' = animation_step + 1
       /\ (StepAnimation /\ (animation_sequence = << >> \/ tokens = << >>)) =>
              UNCHANGED << current_state, animation_step >>]_vars

\* the simulator has followed two transitions of the sequence
TwoStepsTaken == animation_step = 2 /\ current_state # Nil

\* the rounds minimize_dfa takes on the automaton held, with fuel for one
\* round more than there are states
RefineTrace(ord) ==
    Rounds(heap, Alphabet(heap, states), InitialPartitions(heap, ord), TRUE, Len(ord))

\* the blocks of P that are not empty
NonEmpty(P) == SelectSeq(P, LAMBDA b : b # << >>)

\* the non-empty blocks of P are pairwise disjoint and cover S
IsPartition(P, S) ==
    /\ \A j \in 1..Len(P) : \A m \in 1..Len(P[j]) : P[j][m] \in S
    /\ \A x \in S :
          Cardinality({<< j, m >> \in (1..Len(P)) \X (1..Cardinality(S)) :
                          m <= Len(P[j]) /\ P[j][m] = x}) = 1

\* C22 as stated: at the start and at the end of every round the blocks are
\* non-empty, pairwise disjoint and cover the states
PartitionBlocksNonEmpty ==
    \A ord \in Orders(Values(states)) :
        LET trace == RefineTrace(ord)
        IN  \A k \in 1..Len(trace) :
              /\ IsPartition(trace[k].partitions, Values(states))
              /\ IsPartition(trace[k].new_partitions, Values(states))
              /\ \A j \in 1..Len(trace[k].partitions) : trace[k].partitions[j] # << >>
              /\ \A j \in 1..Len(trace[k].new_partitions) :
                    trace[k].new_partitions[j] # << >>

\* C22: at the start and at the end of every round the non-empty blocks are
\* pairwise disjoint and cover the states; an empty block, which only the
\* initial partition can bring, stays in the list
PartitionOfStates ==
    \A ord \in Orders(Values(states)) :
        LET trace == RefineTrace(ord)
        IN  \A k \in 1..Len(trace) :
              /\ IsPartition(trace[k].partitions, Values(states))
              /\ IsPartition(trace[k].new_partitions, Values(states))
              /\ Len(trace[k].partitions) - Len(NonEmpty(trace[k].partitions))
                    = Len(trace[1].partitions) - Len(NonEmpty(trace[1].partitions))
              /\ Len(trace[k].new_partitions) - Len(NonEmpty(trace[k].new_partitions))
                    = Len(trace[1].partitions) - Len(NonEmpty(trace[1].partitions))

\* an automaton whose states are all accepting or all non-accepting and that
\* the loop splits
EmptyBlockKept ==
    \E ord \in Orders(Values(states)) :
        LET trace == RefineTrace(ord)
        IN  /\ \E j \in 1..Len(trace[1].partitions) : trace[1].partitions[j] = << >>
            /\ Len(NonEmpty(trace[Len(trace)].new_partitions)) > 1

\* no block is split in the round
NoSplit(round) == Len(round.new_partitions) = Len(round.partitions)

\* the loop terminates within one round more than there are states, and from
\* round to round the number of non-empty blocks never decreases nor exceeds
\* the number of states
RefinementBounded(trace) ==
    /\ trace[Len(trace)].exit
    /\ \A k \in 1..Len(trace) :
          /\ Len(NonEmpty(trace[k].partitions)) <= Len(NonEmpty(trace[k].new_partitions))
          /\ Len(NonEmpty(trace[k].new_partitions)) <= Cardinality(Values(states))

\* C23 as stated: the loop terminates, the number of non-empty blocks never
\* decreases nor exceeds the number of states, and the loop exits in the first
\* round in which no block is split
ExitsAtFirstStableRound ==
    \A ord \in Orders(Values(states)) :
        LET trace == RefineTrace(ord)
        IN  /\ RefinementBounded(trace)
            /\ \A k \in 1..Len(trace) : NoSplit(trace[k]) => k = Len(trace)

\* C23: the loop terminates, the number of non-empty blocks never decreases
\* nor exceeds the number of states, and the loop exits in the first round
\* after the first in which no block is split; the first round, which compares
\* lists with sets, ends the loop only when there is no state
RefinementTerminates ==
    \A ord \in Orders(Values(states)) :
        LET trace == RefineTrace(ord)
        IN  /\ RefinementBounded(trace)
            /\ \A k \in 1..Len(trace) :
                  (NoSplit(trace[k]) /\ (k > 1 \/ ord = << >>)) <=> k = Len(trace)

\* the loop takes three rounds or more
LoopSplitsTwice == \E ord \in Orders(Values(states)) : Len(RefineTrace(ord)) >= 3

\* the states p and q are members of one block of blocks
SameBlock(blocks, p, q) ==
    \E j \in 1..Len(blocks) : InSeq(p, blocks[j]) /\ InSeq(q, blocks[j])

AccAgree(block) ==
    \A m, n \in 1..Len(block) : heap[block[m]].acc = heap[block[n]].acc

\* C25: in every round and in the final partition the states of a block are
\* all accepting or all non-accepting, and a minimized state is accepting iff
\* every member of its block is, iff some member is
AcceptingAgreement ==
    \A ord \in Orders(Values(states)) :
        LET trace == RefineTrace(ord)
            blocks == Blocks(heap, states, ord)
        IN  /\ \A k \in 1..Len(trace) :
                  /\ \A j \in 1..Len(trace[k].partitions) : AccAgree(trace[k].partitions[j])
                  /\ \A j \in 1..Len(trace[k].new_partitions) :
                        AccAgree(trace[k].new_partitions[j])
            /\ \A j \in 1..Len(blocks) :
                  /\ AccAgree(blocks[j])
                  /\ MinimizedState(heap, blocks, NewIds, j).acc
                        <=> \A m \in 1..Len(blocks[j]) : heap[blocks[j][m]].acc
                  /\ MinimizedState(heap, blocks, NewIds, j).acc
                        <=> \E m \in 1..Len(blocks[j]) : heap[blocks[j][m]].acc

\* accepting and non-accepting states with the same transitions, and a block
\* of two accepting states
AcceptingBlockOfTwo ==
    \E ord \in Orders(Values(states)) : \E p, q, r \in Values(states) :
        /\ p # q
        /\ heap[p].acc
        /\ SameBlock(Blocks(heap, states, ord), p, q)
        /\ ~heap[r].acc
        /\ heap[r].trans = heap[p].trans

\* C26: in every round the key of a state has -1 for a symbol on which the
\* state has no transition and the index of a partition, which is not -1, for
\* a symbol that leads to a state of the automaton; in the final partition no
\* block holds a state without a transition on a symbol together with a state
\* that the symbol leads to a state of the automaton
SentinelDistinct ==
    \A ord \in Orders(Values(states)) :
        LET trace == RefineTrace(ord)
            blocks == Blocks(heap, states, ord)
        IN  /\ \A k \in 1..Len(trace) : \A p \in Values(states) :
                  \A sym \in Alphabet(heap, states) :
                      LET key == TransitionKey(heap, Alphabet(heap, states),
                                               trace[k].partitions, p)
                      IN  /\ heap[p].trans[sym] = Nil => key[sym] = -1
                          /\ heap[p].trans[sym] \in Values(states) =>
                                /\ key[sym] \in 0..(Len(trace[k].partitions) - 1)
                                /\ key[sym] # -1
            /\ \A p, q \in Values(states) : \A sym \in Labels :
                  (heap[p].trans[sym] = Nil /\ heap[q].trans[sym] \in Values(states)) =>
                      ~SameBlock(blocks, p, q)

\* two states with the same accepting flag, one without a transition on a
\* symbol that leads the other to a non-accepting state
MissingBesideDefined ==
    \E p, q \in Values(states) : \E sym \in Symbols :
        /\ heap[p].acc = heap[q].acc
        /\ heap[p].trans[sym] = Nil
        /\ heap[q].trans[sym] \in Values(states)
        /\ ~heap[heap[q].trans[sym]].acc

\* C27: for a well-formed automaton the dict minimize_dfa returns holds the
\* minimized state of every non-empty final block, and every transition of a
\* state it holds leads to a state it holds
MinimizedWellFormed ==
    \A ord \in Orders(Values(states)) :
        WellFormed(heap, states, start_state) =>
            LET blocks == Blocks(heap, states, ord)
                r == MinimizeDfa(heap, states, start_state, NewIds, ord)
            IN  /\ \A j \in 1..Len(blocks) : NewIds[j] \in Values(r.minimized_states)
                /\ \A i \in Values(r.minimized_states) : \A sym \in Labels :
                      r.heap[i].trans[sym] \in Values(r.minimized_states) \cup {Nil}

====
